---- MODULE Spec2Model ----
(***************************************************************************)
(* A model of bin/mkauthor_mnras.py: the AuthorList registry, its          *)
(* rendering methods, read_csv's row-to-entry conversion and main.         *)
(*                                                                         *)
(* A Python str is a sequence of characters.  An ASCII character is the    *)
(* one-character string itself; a non-ASCII code point is written by its   *)
(* name, "U+00E9".  An optional value (a parameter that may be None) is a  *)
(* sequence of at most one element.                                        *)
(***************************************************************************)
EXTENDS Integers, Sequences, FiniteSets, TLC

VARIABLES
    author_dict,    \* AuthorList.author_dict: ordered <<[key, value]>>, value = index list
    affil_dict,     \* AuthorList.affil_dict: ordered <<[key, value]>>, value = index
    email_dict,     \* AuthorList.email_dict
    notes_dict,     \* AuthorList.notes_dict
    orcid_dict,     \* AuthorList.orcid_dict
    affil_index,    \* AuthorList.affil_index
    op,             \* the name of the last call made
    call,           \* what is kept of the last call's arguments
    ret,            \* what the last call returned: None, or Some(value); under
                    \* SpecNorm, the results of the successive _normalize calls
    raised,         \* whether the last call raised ValueError
    log,            \* the warnings the last call logged
    added,          \* history: the entries add_author_entry accepted, in call order
    pc,             \* main's position
    args,           \* main's parsed arguments
    rows,           \* the csv rows on stdin
    author_entries, \* main's author_entries, from the one the loop is at
    stdout,         \* what main has printed
    text            \* the string handed to _normalize

registry == <<author_dict, affil_dict, email_dict, notes_dict, orcid_dict, affil_index>>
callvars == <<op, call, ret, raised, log, added>>
mainvars == <<pc, args, rows, author_entries, stdout>>
vars == <<author_dict, affil_dict, email_dict, notes_dict, orcid_dict, affil_index,
          op, call, ret, raised, log, added, pc, args, rows, author_entries, stdout, text>>

\* An optional value is a sequence of at most one element.
None == <<>>
Some(v) == <<v>>
\* A faulty truth test: `is not None`, which lets an empty string through.
TruthyNotNone(x) == x # None

\* Python's truth value of an optional string or list: neither None nor empty.
Truthy(x) == x # None /\ x[1] # <<>>

(***************************************************************************)
(* Bounds of the model.                                                    *)
(***************************************************************************)
MaxCitations == 3
MaxRows == 3
MaxLen == 3
MaxApply == 2

(***************************************************************************)
(* Characters.                                                             *)
(***************************************************************************)
SPACE == " "
NBSP == "U+00A0"
ACUTE == "U+00B4"
COMBINING_ACUTE == "U+0301"

\* The characters str.isspace() holds of, among those the model uses.
WhiteSpace == {SPACE, "\t", "\n", NBSP}

\* The primary composites of a letter and U+0301, for the letters the model uses
\* (unicodedata.decomposition of the composite is "<letter> 0301").
Composite == [A |-> "U+00C1", I |-> "U+00CD", C |-> "U+0106", M |-> "U+1E3E",
              S |-> "U+015A", a |-> "U+00E1", c |-> "U+0107", e |-> "U+00E9",
              i |-> "U+00ED", l |-> "U+013A", m |-> "U+1E3F", n |-> "U+0144",
              o |-> "U+00F3", s |-> "U+015B", u |-> "U+00FA", z |-> "U+017A"]

\* The compatibility decomposition of one character: a composite to its letter and
\* the combining mark, U+00B4 to <compat> 0020 0301, U+00A0 to <noBreak> 0020.
Decompose(c) ==
    IF \E b \in DOMAIN Composite : Composite[b] = c
    THEN <<CHOOSE b \in DOMAIN Composite : Composite[b] = c, COMBINING_ACUTE>>
    ELSE IF c = ACUTE THEN <<SPACE, COMBINING_ACUTE>>
    ELSE IF c = NBSP THEN <<SPACE>>
    ELSE <<c>>

RECURSIVE DecomposeAll(_)
DecomposeAll(s) ==
    IF s = <<>> THEN <<>> ELSE Decompose(Head(s)) \o DecomposeAll(Tail(s))

\* Canonical composition, left to right over `rest` with `done` already composed: a
\* combining acute joins the character before it when that pair has a primary
\* composite, and stays as it is otherwise (after a space, a mark, a letter with
\* none, or at the start).
RECURSIVE ComposeFrom(_, _)
ComposeFrom(done, rest) ==
    IF rest = <<>> THEN done
    ELSE IF /\ Head(rest) = COMBINING_ACUTE
            /\ done # <<>>
            /\ done[Len(done)] \in DOMAIN Composite
         THEN ComposeFrom(SubSeq(done, 1, Len(done) - 1) \o <<Composite[done[Len(done)]]>>,
                          Tail(rest))
         ELSE ComposeFrom(Append(done, Head(rest)), Tail(rest))

\* unicodedata.normalize('NFKC', s)
NFKC(s) == ComposeFrom(<<>>, DecomposeAll(s))

RECURSIVE LStrip(_)
LStrip(s) == IF s # <<>> /\ Head(s) \in WhiteSpace THEN LStrip(Tail(s)) ELSE s

RECURSIVE RStrip(_)
RStrip(s) ==
    IF s # <<>> /\ s[Len(s)] \in WhiteSpace THEN RStrip(SubSeq(s, 1, Len(s) - 1)) ELSE s

\* str.strip()
Strip(s) == RStrip(LStrip(s))

\* AuthorList._normalize
Normalize(s) == NFKC(Strip(s))

(***************************************************************************)
(* The string literals of the source.                                      *)
(***************************************************************************)
TILDE == <<"~">>
AFFIL_OPEN == <<"$", "^", "{">>
AFFIL_CLOSE == <<"}", "$">>
AFFIL_END == <<" ", "\\", "\\">>
ORCID_OPEN == <<"%", "\n", "\\", "t", "e", "x", "t", "s", "u", "p", "e", "r", "s", "c", "r", "i", "p", "t", "{">>
ORCID_HREF == <<"\\", "h", "r", "e", "f", "{", "h", "t", "t", "p", "s", ":", "/", "/", "o", "r", "c", "i", "d", ".", "o", "r", "g", "/">>
ORCID_GRAPHICS == <<"{", "\\", "i", "n", "c", "l", "u", "d", "e", "g", "r", "a", "p", "h", "i", "c", "s", "[", "w", "i", "d", "t", "h", "=", "2", ".", "5", "m", "m", "]">>
ORCID_CLOSE == <<"}", "}", "%", "\n">>
LBRACE == <<"{">>
RBRACE == <<"}">>
TEXTSUPERSCRIPT == <<"\\", "t", "e", "x", "t", "s", "u", "p", "e", "r", "s", "c", "r", "i", "p", "t", "{">>
COMMA == <<",">>
THANKS == <<"\\", "t", "h", "a", "n", "k", "s", "{">>
PERCENT_NL == <<"%", "\n">>
NL == <<"\n">>
THINSPACE == <<"\\", "t", "h", "i", "n", "s", "p", "a", "c", "e">>
AND == <<"a", "n", "d">>
LINE_END == <<"\\", "\\">>
QUOTE == <<"\"">>
QUOTE_LT == <<"\"", " ", "<">>
GT == <<">">>
COMMA_SPACE == <<",", " ">>
ORCID_LOGO == <<"o", "r", "c", "i", "d", "-", "I", "D", ".", "p", "n", "g">>

(***************************************************************************)
(* The inputs the model draws from.                                        *)
(***************************************************************************)
ALICE == <<"A", "l", "i", "c", "e", " ", "S", "m", "i", "t", "h">>
BOB == <<"B", "o", "b", " ", "J", "o", "n", "e", "s">>
JOSE == <<"J", "o", "s", "U+00E9">>
JOSE_NFD == <<" ", "J", "o", "s", "e", "U+0301">>
MIT == <<"M", "I", "T">>
CALTECH == <<"C", "a", "l", "t", "e", "c", "h">>
MIT_PADDED == <<"M", "I", "T", " ">>
EMAIL == <<"a", "@", "x", ".", "e", "d", "u">>
EMAIL_JOSE == <<"j", "@", "x", ".", "e", "d", "u">>
ORCID_ID == <<"0", "0", "0", "0", "-", "0", "0", "0", "1">>
NOTE == <<"P", "I">>
NOTE_2 == <<"*">>

\* JOSE and JOSE_NFD are one name after normalization, MIT and MIT_PADDED one
\* affiliation.
RawAffils == {MIT, CALTECH, MIT_PADDED}

RECURSIVE SeqsUpTo(_, _)
SeqsUpTo(S, n) ==
    IF n = 0 THEN {<<>>}
    ELSE LET shorter == SeqsUpTo(S, n - 1)
         IN  shorter \cup {Append(q, x) : q \in shorter, x \in S}

\* The people of the input, each with the optional arguments of the call that adds
\* them: Alice gives an email only, Bob nothing, Jose notes, an email and an ORCID
\* iD, and the second spelling of Jose an empty note list and an empty email.
Roster ==
    {[name |-> ALICE, notes |-> None, email |-> Some(EMAIL), orcid_id |-> None],
     [name |-> BOB, notes |-> None, email |-> None, orcid_id |-> None],
     [name |-> JOSE, notes |-> Some(<<NOTE, NOTE_2>>), email |-> Some(EMAIL_JOSE),
      orcid_id |-> Some(ORCID_ID)],
     [name |-> JOSE_NFD, notes |-> Some(<<>>), email |-> Some(<<>>), orcid_id |-> None]}

(***************************************************************************)
(* A Python dict: its items in insertion order.                            *)
(***************************************************************************)
Has(d, k) == \E i \in 1..Len(d) : d[i].key = k
Get(d, k) == d[CHOOSE i \in 1..Len(d) : d[i].key = k].value

\* d[k] = v: a new key goes last, a known key keeps its place.
Put(d, k, v) ==
    IF Has(d, k)
    THEN [i \in 1..Len(d) |-> IF d[i].key = k THEN [key |-> k, value |-> v] ELSE d[i]]
    ELSE Append(d, [key |-> k, value |-> v])

(***************************************************************************)
(* String helpers.                                                         *)
(***************************************************************************)
Digits == <<"0", "1", "2", "3", "4", "5", "6", "7", "8", "9">>

\* str(n) of a natural number
RECURSIVE Str(_)
Str(n) == IF n < 10 THEN <<Digits[n + 1]>> ELSE Str(n \div 10) \o <<Digits[(n % 10) + 1]>>

\* sep.join(list)
RECURSIVE Join(_, _)
Join(sep, list) ==
    IF list = <<>> THEN <<>>
    ELSE IF Len(list) = 1 THEN list[1]
    ELSE list[1] \o sep \o Join(sep, Tail(list))

\* str.split(): the maximal runs of non-whitespace characters
RECURSIVE SplitFrom(_, _, _)
SplitFrom(words, word, rest) ==
    IF rest = <<>> THEN (IF word = <<>> THEN words ELSE Append(words, word))
    ELSE IF Head(rest) \in WhiteSpace
         THEN SplitFrom(IF word = <<>> THEN words ELSE Append(words, word), <<>>, Tail(rest))
         ELSE SplitFrom(words, Append(word, Head(rest)), Tail(rest))

Split(s) == SplitFrom(<<>>, <<>>, s)

RECURSIVE Flatten(_)
Flatten(lists) == IF lists = <<>> THEN <<>> ELSE Head(lists) \o Flatten(Tail(lists))

(***************************************************************************)
(* AuthorList.add_author_entry                                             *)
(***************************************************************************)
\* The loop over the affiliations: a known affiliation gives its index, a new one
\* takes affil_index and advances it.
\* A faulty loop: the counter advances for a known affiliation too.
RECURSIVE AffilLoopAlwaysAdvance(_, _, _, _)
AffilLoopAlwaysAdvance(affiliations, dict, index, affil_indices) ==
    IF affiliations = <<>>
    THEN [affil_dict |-> dict, affil_index |-> index, affil_indices |-> affil_indices]
    ELSE LET normalized_affil == Normalize(Head(affiliations))
         IN  IF Has(dict, normalized_affil)
             THEN AffilLoopAlwaysAdvance(Tail(affiliations), dict, index + 1,
                                         Append(affil_indices, Get(dict, normalized_affil)))
             ELSE AffilLoopAlwaysAdvance(Tail(affiliations),
                                         Put(dict, normalized_affil, index),
                                         index + 1, Append(affil_indices, index))

\* A faulty loop: each index goes to the front of the author's list.
RECURSIVE AffilLoopReversed(_, _, _, _)
AffilLoopReversed(affiliations, dict, index, affil_indices) ==
    IF affiliations = <<>>
    THEN [affil_dict |-> dict, affil_index |-> index, affil_indices |-> affil_indices]
    ELSE LET normalized_affil == Normalize(Head(affiliations))
         IN  IF Has(dict, normalized_affil)
             THEN AffilLoopReversed(Tail(affiliations), dict, index,
                                    <<Get(dict, normalized_affil)>> \o affil_indices)
             ELSE AffilLoopReversed(Tail(affiliations), Put(dict, normalized_affil, index),
                                    index + 1, <<index>> \o affil_indices)

RECURSIVE AffilLoop(_, _, _, _)
AffilLoop(affiliations, dict, index, affil_indices) ==
    IF affiliations = <<>>
    THEN [affil_dict |-> dict, affil_index |-> index, affil_indices |-> affil_indices]
    ELSE LET normalized_affil == Normalize(Head(affiliations))
         IN  IF Has(dict, normalized_affil)
             THEN AffilLoop(Tail(affiliations), dict, index,
                            Append(affil_indices, Get(dict, normalized_affil)))
             ELSE AffilLoop(Tail(affiliations), Put(dict, normalized_affil, index),
                            index + 1, Append(affil_indices, index))

NormalizeAll(list) == [i \in 1..Len(list) |-> Normalize(list[i])]

\* What the history keeps of an accepted entry: the normalized name and
\* affiliations, and the email as given.
Accepted(name, affiliations, email) ==
    [name |-> Normalize(name), affiliations |-> NormalizeAll(affiliations),
     email |-> email]

\* Faulty warnings: the one for an empty affiliation list is missing.
WarningsEmailOnly(affiliations, email) ==
    IF Truthy(email) THEN {} ELSE {"No email specified"}

\* The warnings one accepted call logs.
Warnings(affiliations, email) ==
    (IF affiliations = <<>> THEN {"Empty affiliation list"} ELSE {})
    \cup (IF Truthy(email) THEN {} ELSE {"No email specified"})

\* What is kept of a call's arguments: the name as given, and whether the entry
\* cites an affiliation the table does not hold yet.
CallOf(name, affiliations) ==
    [name |-> name,
     fresh |-> \E i \in 1..Len(affiliations) : ~Has(affil_dict, Normalize(affiliations[i])),
     with_orcid |-> FALSE]

\* A faulty add_author_entry: the loop over the affiliations runs before the
\* duplicate check, so a rejected entry has already taken its indices.
add_author_entry_check_after_loop(name, affiliations, notes, email, orcid_id) ==
    LET normalized_name == Normalize(name)
        loop == AffilLoop(affiliations, affil_dict, affil_index, <<>>)
    IN  /\ op' = "add_author_entry"
        /\ call' = CallOf(name, affiliations)
        /\ ret' = None
        /\ affil_dict' = loop.affil_dict
        /\ affil_index' = loop.affil_index
        /\ IF Has(author_dict, normalized_name)
           THEN /\ raised' = TRUE
                /\ log' = {}
                /\ UNCHANGED <<author_dict, notes_dict, email_dict, orcid_dict, added>>
           ELSE /\ raised' = FALSE
                /\ author_dict' = Put(author_dict, normalized_name, loop.affil_indices)
                /\ notes_dict' = IF Truthy(notes)
                                 THEN Put(notes_dict, normalized_name, notes[1])
                                 ELSE notes_dict
                /\ email_dict' = IF Truthy(email)
                                 THEN Put(email_dict, normalized_name, email[1])
                                 ELSE email_dict
                /\ orcid_dict' = IF Truthy(orcid_id)
                                 THEN Put(orcid_dict, normalized_name, orcid_id[1])
                                 ELSE orcid_dict
                /\ log' = Warnings(affiliations, email)
                /\ added' = Append(added, Accepted(name, affiliations, email))

add_author_entry(name, affiliations, notes, email, orcid_id) ==
    LET normalized_name == Normalize(name)
    IN  /\ op' = "add_author_entry"
        /\ call' = CallOf(name, affiliations)
        /\ ret' = None
        /\ IF Has(author_dict, normalized_name)
           THEN /\ raised' = TRUE
                /\ log' = {}
                /\ UNCHANGED <<registry, added>>
           ELSE LET loop == AffilLoop(affiliations, affil_dict, affil_index, <<>>)
                IN  /\ raised' = FALSE
                    /\ affil_dict' = loop.affil_dict
                    /\ affil_index' = loop.affil_index
                    /\ author_dict' = Put(author_dict, normalized_name, loop.affil_indices)
                    /\ notes_dict' = IF Truthy(notes)
                                     THEN Put(notes_dict, normalized_name, notes[1])
                                     ELSE notes_dict
                    /\ email_dict' = IF Truthy(email)
                                     THEN Put(email_dict, normalized_name, email[1])
                                     ELSE email_dict
                    /\ orcid_dict' = IF Truthy(orcid_id)
                                     THEN Put(orcid_dict, normalized_name, orcid_id[1])
                                     ELSE orcid_dict
                    /\ log' = Warnings(affiliations, email)
                    /\ added' = Append(added, Accepted(name, affiliations, email))

(***************************************************************************)
(* Rendering.                                                              *)
(***************************************************************************)
texify_author_name(name) == Join(TILDE, Split(name))

texify_affiliation_entry(notemark, affiliation) ==
    AFFIL_OPEN \o notemark \o AFFIL_CLOSE \o affiliation \o AFFIL_END

\* The ORCID badge appended to the name.
OrcidBadge(orcid_id, orcid_logo) ==
    ORCID_OPEN \o ORCID_HREF \o orcid_id \o RBRACE
    \o ORCID_GRAPHICS \o LBRACE \o orcid_logo \o RBRACE \o ORCID_CLOSE

\* latex_author of format_author_list
LatexAuthor(author, with_orcid, orcid_logo) ==
    IF with_orcid /\ Has(orcid_dict, author)
    THEN texify_author_name(author) \o OrcidBadge(Get(orcid_dict, author), orcid_logo)
    ELSE texify_author_name(author)

\* The superscript of the indices alone.
Superscript(indices) ==
    TEXTSUPERSCRIPT \o Join(COMMA, [k \in 1..Len(indices) |-> Str(indices[k])]) \o RBRACE

\* The notes of an author, one \thanks each.
AuthorNotes(notes) == Join(NL, [k \in 1..Len(notes) |-> THANKS \o notes[k] \o RBRACE])

\* latex_affils of format_author_list
LatexAffils(author, indices) ==
    IF Has(notes_dict, author)
    THEN Superscript(indices) \o PERCENT_NL \o AuthorNotes(Get(notes_dict, author))
    ELSE Superscript(indices)

\* Faulty punctuation: the "and" line follows every author but the last.
PunctuateAndEverywhere(i, last_author, latex_author, latex_affils) ==
    (IF i < last_author - 1
     THEN <<latex_author \o COMMA \o latex_affils>>
     ELSE <<latex_author \o THINSPACE \o latex_affils>>)
    \o (IF i < last_author THEN <<AND>> ELSE <<>>)

\* Faulty punctuation: a comma after every author but the last.
PunctuateCommaBeforeLast(i, last_author, latex_author, latex_affils) ==
    IF i < last_author
    THEN <<latex_author \o COMMA \o latex_affils>>
         \o (IF i = last_author - 1 THEN <<AND>> ELSE <<>>)
    ELSE <<latex_author \o THINSPACE \o latex_affils>>

\* The lines author i (from 0) adds: a comma before the last two authors, the thin
\* space for the last two, and the "and" line after the author before the last.
Punctuate(i, last_author, latex_author, latex_affils) ==
    IF i < last_author - 1
    THEN <<latex_author \o COMMA \o latex_affils>>
    ELSE <<latex_author \o THINSPACE \o latex_affils>>
         \o (IF i < last_author THEN <<AND>> ELSE <<>>)

\* A faulty loop order: the items from the last inserted to the first.
ItemsReversed(d) == [n \in 1..Len(d) |-> d[Len(d) + 1 - n]]

\* The items a rendering loop goes through: dict.items(), in insertion order.
Items(d) == d

\* What format_author_list returns.
AuthorLines(with_orcid, orcid_logo) ==
    LET items == Items(author_dict)
        last_author == Len(author_dict) - 1
    IN  Flatten([n \in 1..Len(items) |->
                    Punctuate(n - 1, last_author,
                              LatexAuthor(items[n].key, with_orcid, orcid_logo),
                              LatexAffils(items[n].key, items[n].value))])
        \o <<LINE_END>>

\* What format_email_list returns.
EmailList ==
    LET items == Items(email_dict)
    IN  [n \in 1..Len(items) |-> QUOTE \o items[n].key \o QUOTE_LT \o items[n].value \o GT]

\* What format_affiliation_list returns.
AffiliationLines ==
    LET items == Items(affil_dict)
    IN  [n \in 1..Len(items) |-> texify_affiliation_entry(Str(items[n].value), items[n].key)]

\* What output_latex returns.
Latex(with_orcid, orcid_logo) ==
    Join(NL, AuthorLines(with_orcid, orcid_logo) \o AffiliationLines)

\* What output_email_addr returns.
EmailAddr == Join(COMMA_SPACE, EmailList)

NoCall == [name |-> <<>>, fresh |-> FALSE, with_orcid |-> FALSE]

\* A rendering call: it returns `value` and leaves the registry as it is.
Returns(name, value, with_orcid) ==
    /\ op' = name
    /\ call' = [NoCall EXCEPT !.with_orcid = with_orcid]
    /\ ret' = Some(value)
    /\ raised' = FALSE
    /\ log' = {}
    /\ UNCHANGED <<registry, added>>

format_author_list(with_orcid, orcid_logo) ==
    Returns("format_author_list", AuthorLines(with_orcid, orcid_logo), with_orcid)

format_email_list == Returns("format_email_list", EmailList, FALSE)

format_affiliation_list == Returns("format_affiliation_list", AffiliationLines, FALSE)

output_latex(with_orcid, orcid_logo) ==
    Returns("output_latex", Latex(with_orcid, orcid_logo), with_orcid)

output_email_addr == Returns("output_email_addr", EmailAddr, FALSE)

(***************************************************************************)
(* The registry under any sequence of calls: add_author_entry any number   *)
(* of times, accepted or rejected, then one rendering call.                *)
(***************************************************************************)
Populating == op \in {"__init__", "add_author_entry"}

Idle == /\ pc = "idle" /\ args = <<>> /\ rows = <<>> /\ author_entries = <<>>
        /\ stdout = <<>> /\ text = <<>>

InitRegistry ==
    /\ author_dict = <<>>
    /\ affil_dict = <<>>
    /\ email_dict = <<>>
    /\ notes_dict = <<>>
    /\ orcid_dict = <<>>
    /\ affil_index = 1
    /\ op = "__init__"
    /\ call = NoCall
    /\ ret = None
    /\ raised = FALSE
    /\ log = {}
    /\ added = <<>>

Init == InitRegistry /\ Idle

\* The affiliations the accepted entries cite, all together.
RECURSIVE Citations(_)
Citations(entries) ==
    IF entries = <<>> THEN 0 ELSE Len(Head(entries).affiliations) + Citations(Tail(entries))

Add ==
    /\ Populating
    /\ \E person \in Roster,
          affiliations \in SeqsUpTo(RawAffils, MaxCitations - Citations(added)) :
          add_author_entry(person.name, affiliations, person.notes, person.email,
                           person.orcid_id)
    /\ UNCHANGED <<mainvars, text>>

FormatAuthorList ==
    /\ Populating
    /\ \E with_orcid \in BOOLEAN : format_author_list(with_orcid, ORCID_LOGO)
    /\ UNCHANGED <<mainvars, text>>

FormatEmailList == Populating /\ format_email_list /\ UNCHANGED <<mainvars, text>>

FormatAffiliationList ==
    Populating /\ format_affiliation_list /\ UNCHANGED <<mainvars, text>>

OutputLatex ==
    /\ Populating
    /\ \E with_orcid \in BOOLEAN : output_latex(with_orcid, ORCID_LOGO)
    /\ UNCHANGED <<mainvars, text>>

OutputEmailAddr == Populating /\ output_email_addr /\ UNCHANGED <<mainvars, text>>

Next ==
    \/ Add
    \/ FormatAuthorList
    \/ FormatEmailList
    \/ FormatAffiliationList
    \/ OutputLatex
    \/ OutputEmailAddr

Spec == Init /\ [][Next]_vars

(***************************************************************************)
(* read_csv and main.  A row is what csv.reader gives, with the columns    *)
(* already looked up: name, affiliation 1..max_affil, note 1..max_note,    *)
(* orcid, email.                                                           *)
(***************************************************************************)
EMPTY == <<>>
BLANK == <<" ", " ">>

\* The cells of `cells` that are not blank, stripped.
RECURSIVE NonBlank(_)
NonBlank(cells) ==
    IF cells = <<>> THEN <<>>
    ELSE IF Strip(Head(cells)) = <<>> THEN NonBlank(Tail(cells))
    ELSE <<Strip(Head(cells))>> \o NonBlank(Tail(cells))

\* The author_entry of one row with a name; a key the row leaves out is None.
EntryOf(row, max_affil, max_note) ==
    LET note_list == NonBlank(SubSeq(row.notes, 1, max_note))
    IN  [name |-> Strip(row.name),
         affiliations |-> NonBlank(SubSeq(row.affiliations, 1, max_affil)),
         notes |-> IF note_list # <<>> THEN Some(note_list) ELSE None,
         orcid_id |-> IF Strip(row.orcid) # <<>> THEN Some(Strip(row.orcid)) ELSE None,
         email |-> IF Strip(row.email) # <<>> THEN Some(Strip(row.email)) ELSE None]

\* What read_csv returns: a row with a blank name is skipped.
RECURSIVE read_csv(_, _, _)
read_csv(f, max_affil, max_note) ==
    IF f = <<>> THEN <<>>
    ELSE IF Strip(Head(f).name) = <<>> THEN read_csv(Tail(f), max_affil, max_note)
    ELSE <<EntryOf(Head(f), max_affil, max_note)>> \o read_csv(Tail(f), max_affil, max_note)

RowSet ==
    {[name |-> ALICE, affiliations |-> <<MIT, EMPTY>>, notes |-> <<EMPTY>>,
      orcid |-> EMPTY, email |-> EMAIL],
     [name |-> BOB, affiliations |-> <<MIT_PADDED, CALTECH>>, notes |-> <<BLANK>>,
      orcid |-> EMPTY, email |-> BLANK],
     [name |-> JOSE, affiliations |-> <<EMPTY, EMPTY>>, notes |-> <<NOTE>>,
      orcid |-> ORCID_ID, email |-> EMAIL_JOSE],
     [name |-> JOSE_NFD, affiliations |-> <<BLANK, CALTECH>>, notes |-> <<EMPTY>>,
      orcid |-> EMPTY, email |-> EMPTY],
     [name |-> BLANK, affiliations |-> <<MIT, EMPTY>>, notes |-> <<EMPTY>>,
      orcid |-> EMPTY, email |-> EMAIL]}

\* parse_args, with the two column counts the rows of RowSet have.
ArgsSet ==
    {[emails |-> e, with_orcid |-> w, orcid_logo |-> ORCID_LOGO, max_affil |-> 2,
      max_note |-> 1] : e \in BOOLEAN, w \in BOOLEAN}

InitMain ==
    /\ InitRegistry
    /\ pc = "read_csv"
    /\ args \in ArgsSet
    /\ rows \in SeqsUpTo(RowSet, MaxRows)
    /\ author_entries = <<>>
    /\ stdout = <<>>
    /\ text = <<>>

\* author_entries = read_csv(sys.stdin, args); author_list = AuthorList()
MainReadCsv ==
    /\ pc = "read_csv"
    /\ author_entries' = read_csv(rows, args.max_affil, args.max_note)
    /\ pc' = "add"
    /\ UNCHANGED <<registry, callvars, args, rows, stdout, text>>

\* A faulty loop: the ValueError is swallowed and the loop goes on.
MainAddSwallow ==
    /\ pc = "add"
    /\ author_entries # <<>>
    /\ LET entry == Head(author_entries)
       IN  add_author_entry(entry.name, entry.affiliations, entry.notes, entry.email,
                            entry.orcid_id)
    /\ author_entries' = Tail(author_entries)
    /\ pc' = "add"
    /\ UNCHANGED <<args, rows, stdout, text>>

\* One turn of the loop: author_list.add_author_entry(**entry).  The ValueError is
\* caught nowhere, so it ends the run.
MainAdd ==
    /\ pc = "add"
    /\ author_entries # <<>>
    /\ LET entry == Head(author_entries)
       IN  add_author_entry(entry.name, entry.affiliations, entry.notes, entry.email,
                            entry.orcid_id)
    /\ author_entries' = Tail(author_entries)
    /\ pc' = IF raised' THEN "raised" ELSE "add"
    /\ UNCHANGED <<args, rows, stdout, text>>

\* if args.emails: print(author_list.output_email_addr()); return
MainPrintEmails ==
    /\ pc = "add"
    /\ author_entries = <<>>
    /\ args.emails
    /\ output_email_addr
    /\ stdout' = Append(stdout, ret'[1])
    /\ pc' = "done"
    /\ UNCHANGED <<args, rows, author_entries, text>>

\* print(author_list.output_latex(with_orcid=..., orcid_logo=...))
MainPrintLatex ==
    /\ pc = "add"
    /\ author_entries = <<>>
    /\ ~args.emails
    /\ output_latex(args.with_orcid, args.orcid_logo)
    /\ stdout' = Append(stdout, ret'[1])
    /\ pc' = "done"
    /\ UNCHANGED <<args, rows, author_entries, text>>

NextMain == MainReadCsv \/ MainAdd \/ MainPrintEmails \/ MainPrintLatex

SpecMain == InitMain /\ [][NextMain]_vars

(***************************************************************************)
(* _normalize alone, applied to a string and then to its own result.       *)
(***************************************************************************)
NormAlphabet == {SPACE, NBSP, ACUTE, COMBINING_ACUTE, "e", "U+00E9"}

InitNorm ==
    /\ InitRegistry
    /\ pc = "idle"
    /\ args = <<>>
    /\ rows = <<>>
    /\ author_entries = <<>>
    /\ stdout = <<>>
    /\ text \in SeqsUpTo(NormAlphabet, MaxLen)

NormalizeCall ==
    /\ Len(ret) < MaxApply
    /\ op' = "_normalize"
    /\ ret' = Append(ret, Normalize(IF ret = <<>> THEN text ELSE ret[Len(ret)]))
    /\ UNCHANGED <<registry, call, raised, log, added, mainvars, text>>

NextNorm == NormalizeCall

SpecNorm == InitNorm /\ [][NextNorm]_vars

(***************************************************************************)
(* The properties.                                                         *)
(***************************************************************************)
IsPrefix(p, q) == Len(p) <= Len(q) /\ SubSeq(q, 1, Len(p)) = p

\* The distinct elements of a list, in the order of their first occurrence.
RECURSIVE FirstSeenFrom(_, _)
FirstSeenFrom(seen, list) ==
    IF list = <<>> THEN seen
    ELSE IF \E k \in 1..Len(seen) : seen[k] = Head(list)
         THEN FirstSeenFrom(seen, Tail(list))
         ELSE FirstSeenFrom(Append(seen, Head(list)), Tail(list))

\* The affiliations of the accepted entries, in entry order and then in the order
\* given within an entry, each once.
FirstSeen == FirstSeenFrom(<<>>, Flatten([i \in 1..Len(added) |-> added[i].affiliations]))

\* The index list the table gives the i-th accepted entry.
IndicesOf(i) ==
    [p \in 1..Len(added[i].affiliations) |-> Get(affil_dict, added[i].affiliations[p])]

\* The lines of a format_author_list result that are authors' lines.
AuthorLinesOf(lines) == SelectSeq(SubSeq(lines, 1, Len(lines) - 1), LAMBDA l : l # AND)

HasEmail(entry) == entry.email # None /\ entry.email[1] # <<>>

\* C1: a call of add_author_entry with a name whose normalized form is already a key
\* of author_dict raises, and leaves author_dict, affil_dict, affil_index, notes_dict,
\* email_dict and orcid_dict as they were.
C1_DuplicateLeavesRegistry ==
    [][(op' = "add_author_entry" /\ Has(author_dict, Normalize(call'.name)))
        => (raised' /\ UNCHANGED registry)]_vars

\* A rejected call whose entry cites an affiliation the table does not hold.
W1_RejectedWithNewAffiliation ==
    op = "add_author_entry" /\ raised /\ call.fresh /\ Len(author_dict) >= 1

\* C2: the table of n distinct affiliations maps the k-th first seen to k, for
\* k = 1..n, and the next index is n + 1, whatever recurs and whatever is rejected.
C2_IndicesInFirstSeenOrder ==
    /\ Len(affil_dict) = Len(FirstSeen)
    /\ \A k \in 1..Len(FirstSeen) :
          Has(affil_dict, FirstSeen[k]) /\ Get(affil_dict, FirstSeen[k]) = k
    /\ {affil_dict[k].value : k \in 1..Len(affil_dict)} = 1..Len(affil_dict)
    /\ affil_index = Len(affil_dict) + 1

\* Two affiliations in the table, one of them cited again, and a rejected call.
W2_RecurrenceAndRejection ==
    /\ Len(affil_dict) = 2
    /\ Citations(added) > Len(affil_dict)
    /\ raised

\* Every author's stored list holds, position by position, the index the table gives
\* the affiliation the author cited there; two authors citing one affiliation hold
\* one index.
C3_Shared ==
    /\ Len(author_dict) = Len(added)
    /\ \A i \in 1..Len(added) :
          /\ author_dict[i].key = added[i].name
          /\ author_dict[i].value = IndicesOf(i)
    /\ \A i, j \in 1..Len(added) :
          \A p \in 1..Len(added[i].affiliations), q \in 1..Len(added[j].affiliations) :
             added[i].affiliations[p] = added[j].affiliations[q]
                => author_dict[i].value[p] = author_dict[j].value[q]

\* A step leaves every index the table has given as it is.
C3_Stable ==
    \A k \in 1..Len(affil_dict) :
       /\ Has(affil_dict', affil_dict[k].key)
       /\ Get(affil_dict', affil_dict[k].key) = affil_dict[k].value

\* C3: every author's stored list holds, position by position and in the order the
\* affiliations were given, the index the table gives the affiliation cited there, so
\* two authors citing one affiliation hold one index; and no call changes an index
\* the table has given.
C3_IndicesStableAndShared == [](C3_Shared) /\ [][C3_Stable]_vars

\* Two authors cite the first affiliation, the second of them after another one.
W3_SharedOutOfOrder ==
    /\ Len(author_dict) >= 2
    /\ author_dict[1].value = <<1>>
    /\ author_dict[2].value = <<2, 1>>

AliceThenBob ==
    /\ op = "format_author_list"
    /\ Len(added) = 2
    /\ added[1].name = ALICE /\ added[1].affiliations = <<MIT>>
    /\ added[2].name = BOB /\ added[2].affiliations = <<MIT, CALTECH>>

C5_ALICE_CLAIMED == <<"A", "l", "i", "c", "e", "~", "S", "m", "i", "t", "h", ",", "\\", "t", "e", "x", "t", "s", "u", "p", "e", "r", "s", "c", "r", "i", "p", "t", "{", "1", "}">>
C5_ALICE == <<"A", "l", "i", "c", "e", "~", "S", "m", "i", "t", "h", "\\", "t", "h", "i", "n", "s", "p", "a", "c", "e", "\\", "t", "e", "x", "t", "s", "u", "p", "e", "r", "s", "c", "r", "i", "p", "t", "{", "1", "}">>
C5_BOB == <<"B", "o", "b", "~", "J", "o", "n", "e", "s", "\\", "t", "h", "i", "n", "s", "p", "a", "c", "e", "\\", "t", "e", "x", "t", "s", "u", "p", "e", "r", "s", "c", "r", "i", "p", "t", "{", "1", ",", "2", "}">>

\* C5 as claimed: for Alice then Bob the lines are Alice's with a comma, "and", Bob's
\* with the thin space, and the closing line.
C5_AsClaimed == AliceThenBob => ret[1] = <<C5_ALICE_CLAIMED, AND, C5_BOB, LINE_END>>

\* C5: for Alice then Bob the lines are Alice's with the thin space, "and", Bob's
\* with the thin space, and the closing line; the stored lists are <<1>> and <<1, 2>>.
C5_TwoAuthorsThinspace ==
    AliceThenBob =>
       /\ ret[1] = <<C5_ALICE, AND, C5_BOB, LINE_END>>
       /\ author_dict[1].value = <<1>>
       /\ author_dict[2].value = <<1, 2>>

W5_AliceThenBobRendered == AliceThenBob

\* C6: format_author_list returns one author's line per accepted entry, the i-th of
\* them with the i-th accepted name and its own index list, whatever notes, email
\* or ORCID iD the authors carry.
C6_AuthorLinesInInsertionOrder ==
    op = "format_author_list" =>
       LET author_lines == AuthorLinesOf(ret[1])
       IN  /\ Len(author_lines) = Len(added)
           /\ \A i \in 1..Len(added) :
                 \E sep \in {COMMA, THINSPACE} :
                    IsPrefix(LatexAuthor(added[i].name, call.with_orcid, ORCID_LOGO)
                                \o sep \o Superscript(IndicesOf(i)),
                             author_lines[i])

\* Three authors rendered, added in an order that is not the alphabetical one, the
\* first with notes and an ORCID iD.
W6_ThreeInCallOrder ==
    /\ op = "format_author_list"
    /\ call.with_orcid
    /\ Len(added) = 3
    /\ added[1].name = JOSE /\ Has(notes_dict, JOSE) /\ Has(orcid_dict, JOSE)
    /\ added[2].name = BOB
    /\ added[3].name = ALICE

C7_ALICE == <<"\"", "A", "l", "i", "c", "e", " ", "S", "m", "i", "t", "h", "\"", " ", "<", "a", "@", "x", ".", "e", "d", "u", ">">>

\* The fragments of the accepted entries that came with an email, in call order.
RECURSIVE EmailFragments(_)
EmailFragments(entries) ==
    IF entries = <<>> THEN <<>>
    ELSE (IF HasEmail(Head(entries))
          THEN <<QUOTE \o Head(entries).name \o QUOTE_LT \o Head(entries).email[1] \o GT>>
          ELSE <<>>)
         \o EmailFragments(Tail(entries))

\* C7: output_email_addr returns the ", " join of one '"name" <email>' fragment for
\* each author added with an email, in insertion order; an author added with None
\* or an empty email gives no fragment and no separator.
C7_EmailsOfThoseWhoGaveOne ==
    op = "output_email_addr" =>
       /\ ret[1] = Join(COMMA_SPACE, EmailFragments(added))
       /\ (Len(added) = 2 /\ added[1].name = ALICE /\ added[2].name = BOB)
             => ret[1] = C7_ALICE

\* Three authors, the one in the middle without an email.
W7_MiddleAuthorWithoutEmail ==
    /\ op = "output_email_addr"
    /\ Len(added) = 3
    /\ HasEmail(added[1]) /\ ~HasEmail(added[2]) /\ HasEmail(added[3])

\* A call with a name not yet registered is accepted, whatever it cites; an
\* accepted call with no affiliation logs the warning, stores the empty index list
\* and leaves the table and the counter alone.
C8_Accepted ==
    /\ (op' = "add_author_entry" /\ ~Has(author_dict, Normalize(call'.name)))
          => (~raised' /\ Len(added') = Len(added) + 1
              /\ added'[Len(added')].name = Normalize(call'.name))
    /\ (op' = "add_author_entry" /\ ~raised' /\ Len(added') = Len(added) + 1
           /\ added'[Len(added')].affiliations = <<>>)
          => /\ "Empty affiliation list" \in log'
             /\ author_dict' = Append(author_dict,
                                      [key |-> added'[Len(added')].name, value |-> <<>>])
             /\ affil_dict' = affil_dict
             /\ affil_index' = affil_index

\* The line of an author without affiliations carries an empty superscript, and
\* the next index counts the distinct affiliations only.
C8_Rendered ==
    /\ op = "format_author_list" =>
          \A i \in 1..Len(author_dict) :
             author_dict[i].value = <<>> =>
                \E sep \in {COMMA, THINSPACE} :
                   IsPrefix(LatexAuthor(author_dict[i].key, call.with_orcid, ORCID_LOGO)
                               \o sep \o TEXTSUPERSCRIPT \o RBRACE,
                            AuthorLinesOf(ret[1])[i])
    /\ affil_index = Len(FirstSeen) + 1

\* C8: an accepted call with no affiliation does not raise: it logs the warning,
\* stores the empty index list and leaves the table and the counter alone; the
\* author's line then carries no index in its superscript; and the numbering goes on
\* as if the author had not been added.
C8_EmptyAffiliationsAccepted == [](C8_Rendered) /\ [][C8_Accepted]_vars

\* An author without affiliations, then one who takes index 1, rendered.
W8_EmptyThenFirstIndex ==
    /\ op = "format_author_list"
    /\ Len(author_dict) >= 2
    /\ author_dict[1].value = <<>>
    /\ author_dict[2].value = <<1>>

\* What a run prints, all of it.
FullOutput == IF args.emails THEN EmailAddr ELSE Latex(args.with_orcid, args.orcid_logo)

C9_Safety ==
    /\ pc = "raised" => stdout = <<>>
    /\ stdout # <<>> =>
          /\ pc = "done"
          /\ author_entries = <<>>
          /\ Len(added) = Len(read_csv(rows, args.max_affil, args.max_note))
          /\ stdout = <<FullOutput>>
    /\ pc = "done" => stdout # <<>>

\* The loop ends the run only by the raise of a duplicate; a call that raises
\* nothing, warnings or not, leaves the loop going and prints nothing; and the step
\* after the last entry prints the whole output.
C9_Step ==
    /\ (pc = "add" /\ pc' = "raised") => (raised' /\ stdout' = <<>>)
    /\ (pc = "add" /\ author_entries # <<>> /\ ~raised') => (pc' = "add" /\ stdout' = stdout)
    /\ (pc = "add" /\ author_entries = <<>>) => (pc' = "done" /\ stdout' = <<FullOutput>>)

\* C9: a run that ended with the duplicate-author error has printed nothing; a run
\* that has printed has added every entry read_csv gave and printed once, the whole
\* output; and warnings neither end the run nor keep the output back.
C9_NoOutputBeforeAllAdded == [](C9_Safety) /\ [][C9_Step]_vars

\* A run that added an author and then ended with the duplicate-author error.
W9_RaisedAfterAnAuthor ==
    /\ pc = "raised"
    /\ Len(added) >= 1
    /\ author_entries # <<>>
    /\ \E i \in 1..Len(added) : ~HasEmail(added[i])

\* C10 as claimed: a second _normalize gives what the first gave.
C10_Idempotent == Len(ret) >= 2 => ret[2] = ret[1]

====
